---------------------------- MODULE Spec2Model ----------------------------
(***************************************************************************)
(* Lumio: a flashcard/quiz engine (src/src/main.py).                       *)
(*                                                                         *)
(* The module models the text scorer, the deck loader, the progress store, *)
(* the daily scheduler and the review session of LumioMainWindow, with the *)
(* button enablement that gates the handlers.                              *)
(*                                                                         *)
(* Representation:                                                         *)
(*  - a text is a sequence of characters, each character a string;         *)
(*    the umlauts and the sharp s are the tokens "a_uml", "o_uml",         *)
(*    "u_uml", "sz";                                                       *)
(*  - a float that the code only compares, multiplies by 0.85 or by 100    *)
(*    is an exact fraction [num, den]; pass_ratio is held in hundredths    *)
(*    (70 is 0.7);                                                         *)
(*  - a date is a day number;                                              *)
(*  - a global question id dk + "::" + qid is the pair <<dk, qid>>;        *)
(*  - None is the empty sequence <<>>, an optional value v is <<v>>.       *)
(***************************************************************************)
EXTENDS Integers, Sequences, FiniteSets, TLC

VARIABLES
    phase,          \* "idle": no window; "session": a LumioMainWindow is shown
    startup_error,  \* main()'s critical message box was shown for the last start
    today,          \* date.today() / time.time(), in days
    progress_file,  \* data/progress.json on disk
    progress_db,    \* self.progress_db
    decks,          \* self.decks, in insertion order
    mastered,       \* self.mastered
    attempts,       \* self.attempts
    fail_counts,    \* self.fail_counts
    points,         \* self.points
    queue,          \* self.queue
    today_set,      \* self.today_set
    current_id,     \* self.current_id
    last_result,    \* self.last_result
    check_enabled,  \* self.check_btn.isEnabled()
    next_enabled,   \* self.next_btn.isEnabled()
    text_enabled,   \* self.text.isEnabled()
    session,        \* number of windows constructed so far
    arg,            \* argument of the function under test (function specifications)
    ret             \* its result

vars == <<phase, startup_error, today, progress_file, progress_db, decks,
          mastered, attempts, fail_counts, points, queue, today_set,
          current_id, last_result, check_enabled, next_enabled, text_enabled,
          session, arg, ret>>

sessionVars == <<phase, startup_error, today, progress_file, progress_db, decks,
                 mastered, attempts, fail_counts, points, queue, today_set,
                 current_id, last_result, check_enabled, next_enabled,
                 text_enabled, session>>

-----------------------------------------------------------------------------
(* Bounds of the model *)

MaxAnswerLen == 3

MaxChecks == 2

MaxDay == 1

MaxSessions == 2

MaxRemaining == 10

-----------------------------------------------------------------------------
(* Generic helpers *)

None == <<>>

Some(v) == <<v>>

Max(a, b) == IF a >= b THEN a ELSE b

Range(s) == {s[i] : i \in 1..Len(s)}

RECURSIVE SeqsUpTo(_, _)
SeqsUpTo(S, n) ==
    IF n = 0 THEN {<<>>}
    ELSE LET shorter == SeqsUpTo(S, n - 1)
         IN shorter \cup {Append(s, c) : s \in {t \in shorter : Len(t) = n - 1}, c \in S}

RECURSIVE Flatten(_)
Flatten(ss) == IF ss = <<>> THEN <<>> ELSE Head(ss) \o Flatten(Tail(ss))

RemoveAt(s, i) == SubSeq(s, 1, i - 1) \o SubSeq(s, i + 1, Len(s))

\* every ordering random.shuffle can leave a list in
RECURSIVE Shuffles(_)
Shuffles(s) ==
    IF s = <<>> THEN {<<>>}
    ELSE UNION {{<<s[i]>> \o r : r \in Shuffles(RemoveAt(s, i))} : i \in 1..Len(s)}

\* [x for x in s if Keep(x)]
RECURSIVE SelectSeqIn(_, _)
SelectSeqIn(s, S) ==
    IF s = <<>> THEN <<>>
    ELSE IF Head(s) \in S THEN <<Head(s)>> \o SelectSeqIn(Tail(s), S)
         ELSE SelectSeqIn(Tail(s), S)

\* dict.get(key, default)
Get(d, key, default) == IF key \in DOMAIN d THEN d[key] ELSE default

\* d[key] = value on a dict (insert or overwrite)
Put(d, key, value) == [k \in DOMAIN d \cup {key} |-> IF k = key THEN value ELSE d[k]]

-----------------------------------------------------------------------------
(* Text scoring *)

Whitespace == {" "}

WordChars == {"a", "b", "e", "o", "u", "s", "p", "q", "1", "2", "_"}

AllowedPunct == {"=", "*", "+", "-", "/", "<", ">", "(", ")"}

IsSpace(c) == c \in Whitespace

RECURSIVE LStrip(_)
LStrip(s) == IF s # <<>> /\ IsSpace(Head(s)) THEN LStrip(Tail(s)) ELSE s

RECURSIVE RStrip(_)
RStrip(s) ==
    IF s # <<>> /\ IsSpace(s[Len(s)]) THEN RStrip(SubSeq(s, 1, Len(s) - 1)) ELSE s

\* str.strip()
Strip(s) == RStrip(LStrip(s))

LowerChar(c) ==
    CASE c = "A" -> "a"
      [] c = "B" -> "b"
      [] c = "A_uml" -> "a_uml"
      [] OTHER -> c

\* str.lower()
Lower(s) == [i \in 1..Len(s) |-> LowerChar(s[i])]

ExpandChar(c) ==
    CASE c = "a_uml" -> <<"a", "e">>
      [] c = "o_uml" -> <<"o", "e">>
      [] c = "u_uml" -> <<"u", "e">>
      [] c = "sz" -> <<"s", "s">>
      [] OTHER -> <<c>>

\* the four .replace calls
ReplaceUmlauts(s) == Flatten([i \in 1..Len(s) |-> ExpandChar(s[i])])

\* re.sub(r"[^\w\s=*+\-/<>()]", " ", t)
PunctToSpace(s) ==
    [i \in 1..Len(s) |->
        IF s[i] \in WordChars \cup Whitespace \cup AllowedPunct THEN s[i] ELSE " "]

\* re.sub(r"\s+", " ", t)
RECURSIVE CollapseSpaces(_)
CollapseSpaces(s) ==
    IF s = <<>> THEN <<>>
    ELSE IF IsSpace(Head(s))
         THEN <<" ">> \o CollapseSpaces(LStrip(s))
         ELSE <<Head(s)>> \o CollapseSpaces(Tail(s))

normalize(text) ==
    Strip(CollapseSpaces(PunctToSpace(ReplaceUmlauts(Lower(Strip(text))))))

\* len(norm_text.split()): the number of maximal runs of non-whitespace
SplitCount(s) ==
    Cardinality({i \in 1..Len(s) : ~IsSpace(s[i]) /\ (i = 1 \/ IsSpace(s[i - 1]))})

word_count(norm_text) == IF norm_text = <<>> THEN 0 ELSE SplitCount(norm_text)

\* phrase in norm_text
Contains(norm_text, phrase) ==
    \E i \in 1..(Len(norm_text) + 1) :
        /\ i + Len(phrase) - 1 <= Len(norm_text)
        /\ SubSeq(norm_text, i, i + Len(phrase) - 1) = phrase

\* the first phrase of the group that occurs in the text, or None
RECURSIVE FirstMatch(_, _)
FirstMatch(group, norm_text) ==
    IF group = <<>> THEN None
    ELSE IF Contains(norm_text, Head(group)) THEN Some(Head(group))
         ELSE FirstMatch(Tail(group), norm_text)

rubric_hits_details(rubric, norm_text) ==
    LET matched == [i \in 1..Len(rubric) |-> FirstMatch(rubric[i], norm_text)]
        hits == [i \in 1..Len(rubric) |-> matched[i] # None]
    IN [hit_count |-> Cardinality({i \in 1..Len(rubric) : hits[i]}),
        hits |-> hits,
        matched |-> matched]

PenaltyPct == 85

\* a >= b on fractions with positive denominators
FracGeq(a, b) == a.num * b.den >= b.num * a.den

\* round(): to the nearest integer, a tie to the even one
RoundHalfEven(num, den) ==
    LET fl == num \div den
        r2 == 2 * (num - fl * den)
    IN IF r2 > den THEN fl + 1
       ELSE IF r2 < den THEN fl
       ELSE IF fl % 2 = 0 THEN fl ELSE fl + 1

compute_score_no_length_gate(q, user_text) ==
    LET norm == normalize(user_text)
        wc == word_count(norm)
        d == rubric_hits_details(q.rubric, norm)
        total == Max(Len(q.rubric), 1)
        coverage == [num |-> d.hit_count, den |-> total]
        length_ok == wc >= q.min_words
        effective == IF length_ok THEN [num |-> coverage.num * 100, den |-> total * 100]
                     ELSE [num |-> coverage.num * PenaltyPct, den |-> total * 100]
    IN [word_count |-> wc, hit_count |-> d.hit_count, total |-> total,
        coverage |-> coverage, effective |-> effective,
        passed |-> FracGeq(effective, [num |-> q.pass_ratio, den |-> 100]),
        length_ok |-> length_ok, hits |-> d.hits, matched |-> d.matched]

compute_score(q, user_text) ==
    LET norm == normalize(user_text)
        wc == word_count(norm)
        d == rubric_hits_details(q.rubric, norm)
        total == Max(Len(q.rubric), 1)
        coverage == [num |-> d.hit_count, den |-> total]
        length_ok == wc >= q.min_words
        effective == IF length_ok THEN [num |-> coverage.num * 100, den |-> total * 100]
                     ELSE [num |-> coverage.num * PenaltyPct, den |-> total * 100]
        passed == FracGeq(effective, [num |-> q.pass_ratio, den |-> 100]) /\ length_ok
    IN [word_count |-> wc, hit_count |-> d.hit_count, total |-> total,
        coverage |-> coverage, effective |-> effective, passed |-> passed,
        length_ok |-> length_ok, hits |-> d.hits, matched |-> d.matched]

\* int(round(result["effective"] * 100))
PointsOf(result) == RoundHalfEven(result.effective.num * 100, result.effective.den)

\* the answers the user can type
AnswerChars == {"a", "B", " ", "!", "a_uml"}

Answers == SeqsUpTo(AnswerChars, MaxAnswerLen)

-----------------------------------------------------------------------------
(* JSON values: the pair of a type tag and a payload *)

JStr(s) == <<"str", s>>

JInt(n) == <<"int", n>>

\* a JSON number with a fraction, held in hundredths
JNum(h) == <<"num", h>>

JList(items) == <<"list", items>>

JObj(fields) == <<"dict", fields>>

JNull == <<"null", 0>>

\* isinstance: the type tag
T(x) == x[1]

\* the payload
V(x) == x[2]

\* obj.get(key), obj.get(key, default) on a JSON object
JGet(obj, key, default) == Get(V(obj), key, default)

Digits == <<"0", "1", "2", "3", "4", "5", "6", "7", "8", "9">>

DigitValue(c) == CHOOSE n \in 0..9 : Digits[n + 1] = c

IsDigits(s) == s # <<>> /\ \A i \in 1..Len(s) : s[i] \in Range(Digits)

\* str(n) of a non-negative int
RECURSIVE IntToStr(_)
IntToStr(n) ==
    IF n < 10 THEN <<Digits[n + 1]>>
    ELSE IntToStr(n \div 10) \o <<Digits[(n % 10) + 1]>>

\* int(s) of a digit string
RECURSIVE StrToInt(_)
StrToInt(s) ==
    IF s = <<>> THEN 0
    ELSE 10 * StrToInt(SubSeq(s, 1, Len(s) - 1)) + DigitValue(s[Len(s)])

\* s.split("-")
RECURSIVE SplitDash(_)
SplitDash(s) ==
    IF \A i \in 1..Len(s) : s[i] # "-" THEN <<s>>
    ELSE LET k == CHOOSE i \in 1..Len(s) :
                      s[i] = "-" /\ \A j \in 1..(i - 1) : s[j] # "-"
         IN <<SubSeq(s, 1, k - 1)>> \o SplitDash(SubSeq(s, k + 1, Len(s)))

MonthsPerYear == 12

DaysPerMonth == 31

\* date(int(y), int(m), int(d)) as a day number, None when it raises.
\* The calendar is simplified to months of DaysPerMonth days; day 0 is 1-1-1.
ParseDate(due) ==
    LET parts == SplitDash(Strip(due))
    IN IF Len(parts) # 3 \/ \E i \in 1..3 : ~IsDigits(parts[i]) THEN None
       ELSE LET y == StrToInt(parts[1])
                m == StrToInt(parts[2])
                d == StrToInt(parts[3])
            IN IF y < 1 \/ m < 1 \/ m > MonthsPerYear \/ d < 1 \/ d > DaysPerMonth
               THEN None
               ELSE Some((y - 1) * MonthsPerYear * DaysPerMonth
                         + (m - 1) * DaysPerMonth + (d - 1))

-----------------------------------------------------------------------------
(* Data model and deck loading *)

DefaultPassRatio == 70

DefaultMinWords == 20

DefaultMaxRepeats == 999999

\* DeckMeta()
DefaultMeta == [title |-> None, due_date |-> None]

LoadError(kind) == [error |-> kind, meta |-> DefaultMeta, questions |-> <<>>]

\* str(v) for the id field
ToStr(x) == IF T(x) = "int" THEN IntToStr(V(x)) ELSE V(x)

\* float(v) of a JSON number, in hundredths; None when it raises, as it does
\* for null, a list or an object
ToFloat(x) ==
    CASE T(x) = "num" -> Some(V(x))
      [] T(x) = "int" -> Some(V(x) * 100)
      [] OTHER -> None

\* int(v) of a JSON number; None when it raises, as it does for null, a
\* list or an object
ToInt(x) ==
    CASE T(x) = "int" -> Some(V(x))
      [] T(x) = "num" -> Some(V(x) \div 100)
      [] OTHER -> None

\* isinstance(rubric, list) and all(isinstance(g, list)
\*     and all(isinstance(p, str) for p in g) for g in rubric)
RubricOk(rubric) ==
    /\ T(rubric) = "list"
    /\ \A i \in 1..Len(V(rubric)) :
        /\ T(V(rubric)[i]) = "list"
        /\ \A j \in 1..Len(V(V(rubric)[i])) : T(V(V(rubric)[i])[j]) = "str"

\* the rubric of a TextQuestion: the groups, each the phrases
RubricOf(rubric) ==
    [i \in 1..Len(V(rubric)) |->
        [j \in 1..Len(V(V(rubric)[i])) |-> V(V(V(rubric)[i])[j])]]

\* One pass of the loop over the items: the question appended, nothing
\* (a skipped item), or the error raised.
LoadItem(obj, i) ==
    IF T(obj) # "dict" THEN [error |-> "ValueError", questions |-> <<>>]
    ELSE IF JGet(obj, "type", JNull) # JStr(<<"t", "e", "x", "t">>)
    THEN [error |-> "none", questions |-> <<>>]
    ELSE
      LET qid == ToStr(JGet(obj, "id", JStr(<<"q">> \o IntToStr(i))))
          prompt == JGet(obj, "prompt", JNull)
          rubric == JGet(obj, "rubric", JNull)
          pass_ratio == ToFloat(JGet(obj, "pass_ratio", JNum(DefaultPassRatio)))
          min_words == ToInt(JGet(obj, "min_words", JInt(DefaultMinWords)))
          max_repeats == ToInt(JGet(obj, "max_repeats", JInt(DefaultMaxRepeats)))
          example == JGet(obj, "example", JStr(<<>>))
      IN IF T(prompt) # "str"
         THEN [error |-> "ValueError", questions |-> <<>>]
         ELSE IF Strip(V(prompt)) = <<>>
         THEN [error |-> "ValueError", questions |-> <<>>]
         ELSE IF ~RubricOk(rubric)
         THEN [error |-> "ValueError", questions |-> <<>>]
         ELSE IF pass_ratio = None \/ min_words = None \/ max_repeats = None
         THEN [error |-> "TypeError", questions |-> <<>>]
         ELSE [error |-> "none",
               questions |-> <<[id |-> qid,
                                prompt |-> Strip(V(prompt)),
                                rubric |-> RubricOf(rubric),
                                pass_ratio |-> pass_ratio[1],
                                min_words |-> min_words[1],
                                max_repeats |-> max_repeats[1],
                                example |-> IF T(example) = "str"
                                            THEN Strip(V(example)) ELSE <<>>]>>]

\* for i, obj in enumerate(items): ...   (the code counts i from 0 and
\* names the default id q{i+1}; here i counts from 1)
RECURSIVE LoadItems(_, _)
LoadItems(items, i) ==
    IF i > Len(items) THEN [error |-> "none", questions |-> <<>>]
    ELSE LET one == LoadItem(items[i], i)
         IN IF one.error # "none" THEN one
            ELSE LET rest == LoadItems(items, i + 1)
                 IN IF rest.error # "none" THEN rest
                    ELSE [error |-> "none", questions |-> one.questions \o rest.questions]

\* the meta object of the current format: the DeckMeta, or the error raised
LoadMeta(raw) ==
    LET meta_obj == JGet(raw, "meta", JObj(<<>>))
    IN IF T(meta_obj) # "dict" THEN [error |-> "none", meta |-> DefaultMeta]
       ELSE
         LET title == JGet(meta_obj, "title", JNull)
             due == JGet(meta_obj, "due_date", JNull)
             t == IF T(title) = "str"
                  THEN IF Strip(V(title)) # <<>> THEN Some(Strip(V(title))) ELSE None
                  ELSE None
         IN IF T(due) # "str" THEN [error |-> "none", meta |-> [title |-> t, due_date |-> None]]
            ELSE IF Strip(V(due)) = <<>>
            THEN [error |-> "none", meta |-> [title |-> t, due_date |-> None]]
            ELSE IF ParseDate(V(due)) = None
            THEN [error |-> "ValueError", meta |-> DefaultMeta]
            ELSE [error |-> "none", meta |-> [title |-> t, due_date |-> ParseDate(V(due))]]

\* load_deck(deck_path): file is None when the path does not exist, else
\* Some(raw), raw the parsed JSON.  The result holds the exception raised
\* ("none": the function returned meta, questions).
load_deck(file) ==
    IF file = None THEN LoadError("FileNotFoundError")
    ELSE
      LET raw == file[1]
          m == IF T(raw) = "dict" THEN LoadMeta(raw)
               ELSE [error |-> "none", meta |-> DefaultMeta]
          items == IF T(raw) = "dict" THEN JGet(raw, "questions", JNull) ELSE raw
      IN IF T(raw) \notin {"dict", "list"} THEN LoadError("ValueError")
         ELSE IF m.error # "none" THEN LoadError(m.error)
         ELSE IF T(items) # "list" THEN LoadError("ValueError")
         ELSE LET r == LoadItems(V(items), 1)
              IN IF r.error # "none" THEN LoadError(r.error)
                 ELSE IF r.questions = <<>> THEN LoadError("ValueError")
                 ELSE [error |-> "none", meta |-> m.meta, questions |-> r.questions]

-----------------------------------------------------------------------------
(* The deck files of the decks directory *)

TypeText == JStr(<<"t", "e", "x", "t">>)

Phrase(s) == JStr(s)

\* {"type": "text", "prompt": "p", "rubric": [["a"], ["b"]], "min_words": 2}
QuestionA1 ==
    JObj([k \in {"type", "prompt", "rubric", "min_words"} |->
        CASE k = "type" -> TypeText
          [] k = "prompt" -> JStr(<<"p">>)
          [] k = "rubric" -> JList(<<JList(<<Phrase(<<"a">>)>>), JList(<<Phrase(<<"b">>)>>)>>)
          [] k = "min_words" -> JInt(2)])

\* {"type": "text", "id": "q2", "prompt": " q ", "rubric": [["ae", "b"]],
\*  "pass_ratio": 0.5, "min_words": 1, "example": "ae"}
QuestionA2 ==
    JObj([k \in {"type", "id", "prompt", "rubric", "pass_ratio", "min_words", "example"} |->
        CASE k = "type" -> TypeText
          [] k = "id" -> JStr(<<"q", "2">>)
          [] k = "prompt" -> JStr(<<" ", "q", " ">>)
          [] k = "rubric" -> JList(<<JList(<<Phrase(<<"a", "e">>), Phrase(<<"b">>)>>)>>)
          [] k = "pass_ratio" -> JNum(50)
          [] k = "min_words" -> JInt(1)
          [] k = "example" -> JStr(<<"a", "e">>)])

\* {"type": "text", "id": 3, "prompt": "p", "rubric": [["a"]], "min_words": 1}
QuestionA3 ==
    JObj([k \in {"type", "id", "prompt", "rubric", "min_words"} |->
        CASE k = "type" -> TypeText
          [] k = "id" -> JInt(3)
          [] k = "prompt" -> JStr(<<"p">>)
          [] k = "rubric" -> JList(<<JList(<<Phrase(<<"a">>)>>)>>)
          [] k = "min_words" -> JInt(1)])

\* {"type": "text", "prompt": "p", "rubric": [["b"]], "min_words": 1}
QuestionB ==
    JObj([k \in {"type", "prompt", "rubric", "min_words"} |->
        CASE k = "type" -> TypeText
          [] k = "prompt" -> JStr(<<"p">>)
          [] k = "rubric" -> JList(<<JList(<<Phrase(<<"b">>)>>)>>)
          [] k = "min_words" -> JInt(1)])

\* {"type": "choice", "prompt": "p"}: not a text question
QuestionChoice ==
    JObj([k \in {"type", "prompt"} |->
        CASE k = "type" -> JStr(<<"c">>)
          [] k = "prompt" -> JStr(<<"p">>)])

\* {"type": "text", "prompt": "p", "rubric": []}
QuestionEmptyRubric ==
    JObj([k \in {"type", "prompt", "rubric"} |->
        CASE k = "type" -> TypeText
          [] k = "prompt" -> JStr(<<"p">>)
          [] k = "rubric" -> JList(<<>>)])

\* {"type": "text", "prompt": "p", "rubric": [["a", 1]]}
QuestionNonStringPhrase ==
    JObj([k \in {"type", "prompt", "rubric"} |->
        CASE k = "type" -> TypeText
          [] k = "prompt" -> JStr(<<"p">>)
          [] k = "rubric" -> JList(<<JList(<<Phrase(<<"a">>), JInt(1)>>)>>)])

\* {"type": "text", "prompt": "p", "rubric": ["a"]}
QuestionGroupNotList ==
    JObj([k \in {"type", "prompt", "rubric"} |->
        CASE k = "type" -> TypeText
          [] k = "prompt" -> JStr(<<"p">>)
          [] k = "rubric" -> JList(<<Phrase(<<"a">>)>>)])

\* {"type": "text", "prompt": "p"}
QuestionNoRubric ==
    JObj([k \in {"type", "prompt"} |->
        CASE k = "type" -> TypeText
          [] k = "prompt" -> JStr(<<"p">>)])

\* {"type": "text", "prompt": " ", "rubric": [["a"]]}
QuestionBlankPrompt ==
    JObj([k \in {"type", "prompt", "rubric"} |->
        CASE k = "type" -> TypeText
          [] k = "prompt" -> JStr(<<" ">>)
          [] k = "rubric" -> JList(<<JList(<<Phrase(<<"a">>)>>)>>)])

\* {"meta": {"title": "A", "due_date": "1-1-3"}, "questions": [a1, a2, a3]}
DeckFileA ==
    JObj([k \in {"meta", "questions"} |->
        CASE k = "meta" ->
               JObj([m \in {"title", "due_date"} |->
                   CASE m = "title" -> JStr(<<"A">>)
                     [] m = "due_date" -> JStr(<<"1", "-", "1", "-", "3">>)])
          [] k = "questions" -> JList(<<QuestionA1, QuestionA2, QuestionA3>>)])

\* the legacy format: [choice, b]
DeckFileB == JList(<<QuestionChoice, QuestionB>>)

DeckFileN == JList(<<QuestionB, QuestionNonStringPhrase>>)

\* the *.json paths the picker offers, by deck key, in list_decks order
DeckPaths == <<"decks/a.json", "decks/b.json", "decks/gone.json", "decks/n.json">>

\* the file behind a path when load_deck opens it; decks/gone.json was
\* removed after the picker listed it
DeckFileAt(path) ==
    CASE path = "decks/a.json" -> Some(DeckFileA)
      [] path = "decks/b.json" -> Some(DeckFileB)
      [] path = "decks/n.json" -> Some(DeckFileN)
      [] OTHER -> None

\* load_deck(str(dp)) of each path, evaluated once
DeckLoads == [path \in Range(DeckPaths) |-> load_deck(DeckFileAt(path))]

\* the questions the deck files hold
CatalogueQuestions ==
    UNION {Range(DeckLoads[path].questions) : path \in Range(DeckPaths)}

\* compute_score(q, user_text) of every question of the catalogue and every
\* answer typed, evaluated once
Scores == [q \in CatalogueQuestions |-> [a \in Answers |-> compute_score(q, a)]]

\* on_check reads user_text only through compute_score: one answer of each
\* score stands for all the answers of that score
AnswerClasses ==
    [q \in CatalogueQuestions |->
        {CHOOSE a \in Answers : Scores[q][a] = r : r \in {Scores[q][a] : a \in Answers}}]

\* the non-empty selections DeckPickerDialog accepts, each in list order
Selections ==
    {SelectSeqIn(DeckPaths, S) : S \in (SUBSET Range(DeckPaths)) \ {{}}}

-----------------------------------------------------------------------------
(* Progress store *)

\* {"version": 1, "decks": {}}.  A db is [t, decks]: t the JSON type of the
\* root, decks the "decks" object as dk -> (qid -> record), the "questions"
\* level folded into it.
EmptyDB == [t |-> "dict", decks |-> <<>>]

\* a file that parses as JSON but not to an object, such as []
WrongShapeDB == [t |-> "list", decks |-> <<>>]

\* the progress file: kind is "absent", "unparsable" or "json"
FileAbsent == [kind |-> "absent", value |-> EmptyDB]

FileUnparsable == [kind |-> "unparsable", value |-> EmptyDB]

FileJson(db) == [kind |-> "json", value |-> db]

load_progress(file) ==
    IF file.kind = "absent" THEN EmptyDB
    ELSE IF file.kind = "unparsable" THEN EmptyDB
    ELSE file.value

\* the write is put off: the file keeps its old content
save_progress_deferred(db) == progress_file

save_progress(db) == FileJson(db)

\* A record is [mastered, attempts, fails, points].  Its fifth field,
\* updated_at = int(time.time()), is written by _persist_question_state and
\* read by no code: the records are modelled up to it.
NoEntry == [mastered |-> FALSE, attempts |-> 0, fails |-> 0, points |-> -1]

\* progress_db.get("decks", {}).get(dk, {}).get("questions", {}).get(qid, {})
\* with the defaults of the four .get calls that read it
QEntry(db, dk, qid) == Get(Get(db.decks, dk, <<>>), qid, NoEntry)

-----------------------------------------------------------------------------
(* Session state derived from self.decks *)

GqidsOfDeck(d) == [i \in 1..Len(d.questions) |-> <<d.key, d.questions[i].id>>]

\* the keys of self.all_questions, in insertion order
AllGqids(ds) == Flatten([k \in 1..Len(ds) |-> GqidsOfDeck(ds[k])])

\* self.all_questions[gqid]
QuestionOf(ds, gqid) ==
    LET d == ds[CHOOSE k \in 1..Len(ds) : ds[k].key = gqid[1]]
    IN d.questions[CHOOSE i \in 1..Len(d.questions) : d.questions[i].id = gqid[2]]

\* self.global_to_deck[gqid]
DeckOf(gqid) == gqid[1]

-----------------------------------------------------------------------------
(* Daily scheduler *)

\* int(math.ceil(a / b)) for a > 0, b > 0
CeilDiv(a, b) == (a + b - 1) \div b

deck_daily_quota_floor(meta_due, remaining) ==
    IF remaining <= 0 THEN 0
    ELSE IF meta_due = None THEN 0
    ELSE LET days_left == meta_due[1] - today
         IN IF days_left <= 0 THEN remaining
            ELSE remaining \div days_left

deck_daily_quota(meta_due, remaining) ==
    IF remaining <= 0 THEN 0
    ELSE IF meta_due = None THEN 0
    ELSE LET days_left == meta_due[1] - today
         IN IF days_left <= 0 THEN remaining
            ELSE CeilDiv(remaining, days_left)

\* every id of the deck is a candidate
CandidatesUnfiltered(gq, m) == gq

\* candidates = [f"{dk}::{q.id}" for q in qs if f"{dk}::{q.id}" not in self.mastered]
Candidates(gq, m) == SelectSeqIn(gq, Range(gq) \ m)

\* the whole list is kept
TakeAll(c, quota) == c

\* candidates[:quota], quota > 0
TakeFirst(c, quota) == SubSeq(c, 1, IF quota < Len(c) THEN quota ELSE Len(c))

\* the lists one deck can contribute: candidates shuffled, the first quota kept
DeckPicks(d, m) ==
    LET gq == GqidsOfDeck(d)
        mastered_in_deck == Cardinality({i \in 1..Len(gq) : gq[i] \in m})
        remaining == Len(gq) - mastered_in_deck
        quota == deck_daily_quota(d.meta.due_date, remaining)
        candidates == Candidates(gq, m)
    IN IF quota <= 0 THEN {<<>>}
       ELSE {TakeFirst(c, quota) :
                c \in Shuffles(candidates)}

\* the lists the loop over self.decks can build
RECURSIVE QuotaPicks(_, _)
QuotaPicks(ds, m) ==
    IF ds = <<>> THEN {<<>>}
    ELSE UNION {{h \o r : r \in QuotaPicks(Tail(ds), m)} : h \in DeckPicks(Head(ds), m)}

\* the quota picks alone, no fallback when they are empty
_build_daily_queue_no_fallback(ds, m) == QuotaPicks(ds, m)

\* every list _build_daily_queue can return
_build_daily_queue(ds, m) ==
    {IF qids = <<>> THEN SelectSeqIn(AllGqids(ds), Range(AllGqids(ds)) \ m) ELSE qids :
        qids \in QuotaPicks(ds, m)}

\* self.today_set is left as it was
FreshQueuesStaleSet(ds, m) ==
    UNION {{[today_set |-> today_set, queue |-> q] : q \in Shuffles(qids)} :
              qids \in _build_daily_queue(ds, m)}

\* self.queue = self._build_daily_queue(); self.today_set = set(self.queue);
\* random.shuffle(self.queue): every (today_set, queue) the three lines can leave
FreshQueues(ds, m) ==
    UNION {{[today_set |-> Range(qids), queue |-> q] : q \in Shuffles(qids)} :
              qids \in _build_daily_queue(ds, m)}

-----------------------------------------------------------------------------
(* Review session: LumioMainWindow *)

\* while self.queue and (self.queue[0] in self.mastered): self.queue.pop(0)
RECURSIVE DropMasteredHead(_, _)
DropMasteredHead(q, m) ==
    IF q # <<>> /\ Head(q) \in m THEN DropMasteredHead(Tail(q), m) ELSE q

\* the queue is left as it is
PopHeadKept(q, cur) == q

\* if self.queue and self.queue[0] == self.current_id: self.queue.pop(0)
PopHead(q, cur) == IF q # <<>> /\ Head(q) = cur THEN Tail(q) ELSE q

\* the id is put back at the head
RequeueAtHead(q, cur) == <<cur>> \o q

\* self.queue.append(self.current_id)
Requeue(q, cur) == Append(q, cur)

\* no persisted mastery is read
PersistedMasteredNone(db, gs) == {}

\* the ids __init__ adds to self.mastered from the progress store
PersistedMastered(db, gs) == {g \in gs : QEntry(db, g[1], g[2]).mastered}

\* the last id of the queue is made the current question
PresentLast(q) ==
    /\ queue' = q
    /\ current_id' = q[Len(q)]
    /\ last_result' = None
    /\ text_enabled' = TRUE
    /\ check_enabled' = TRUE
    /\ next_enabled' = FALSE

\* the tail of _load_current: the head of the queue is presented
Present(q) ==
    /\ queue' = q
    /\ current_id' = Head(q)
    /\ last_result' = None
    /\ text_enabled' = TRUE
    /\ check_enabled' = TRUE
    /\ next_enabled' = FALSE

\* _load_current() on decks ds, mastered m, queue q0 and today_set ts0;
\* cur0, lr0, ce, ne, te are current_id, last_result and the enablement of
\* check, next and the text box when it is called.
_load_current(ds, m, q0, ts0, cur0, lr0, ce, ne, te) ==
    IF Cardinality(m) = Cardinality(Range(AllGqids(ds)))
    THEN /\ current_id' = None
         /\ text_enabled' = FALSE
         /\ check_enabled' = FALSE
         /\ next_enabled' = FALSE
         /\ queue' = q0
         /\ today_set' = ts0
         /\ last_result' = lr0
    ELSE LET q1 == DropMasteredHead(q0, m)
         IN IF q1 # <<>>
            THEN today_set' = ts0 /\ Present(q1)
            ELSE \E fresh \in FreshQueues(ds, m) :
                    /\ today_set' = fresh.today_set
                    /\ IF fresh.queue = <<>>
                       THEN /\ queue' = fresh.queue
                            /\ current_id' = None
                            /\ last_result' = lr0
                            /\ text_enabled' = te
                            /\ check_enabled' = ce
                            /\ next_enabled' = ne
                       ELSE Present(fresh.queue)

\* the record _persist_question_state writes for gqid
RecordOf(gqid, m, att, fc, pts) ==
    [mastered |-> gqid \in m,
     attempts |-> Get(att, gqid, 0),
     fails |-> Get(fc, gqid, 0),
     points |-> Get(pts, gqid, -1)]

\* the record is built from the mastered set of before the check
_persist_question_state_stale(db, gqid, m, att, fc, pts) ==
    LET dk == DeckOf(gqid)
        qs == Get(db.decks, dk, <<>>)
    IN [db EXCEPT !.decks = Put(db.decks, dk,
                                Put(qs, gqid[2], RecordOf(gqid, mastered, att, fc, pts)))]

\* the questions of the deck are replaced by the one record
_persist_question_state_single(db, gqid, m, att, fc, pts) ==
    LET dk == DeckOf(gqid)
    IN [db EXCEPT !.decks = Put(db.decks, dk,
                                Put(<<>>, gqid[2], RecordOf(gqid, m, att, fc, pts)))]

\* self.progress_db after _persist_question_state(gqid)
_persist_question_state(db, gqid, m, att, fc, pts) ==
    LET dk == DeckOf(gqid)
        qs == Get(db.decks, dk, <<>>)
    IN [db EXCEPT !.decks = Put(db.decks, dk, Put(qs, gqid[2], RecordOf(gqid, m, att, fc, pts)))]

\* the count is set to 1
CountAttemptOnce(att, cur) == Put(att, cur, 1)

\* self.attempts[self.current_id] = self.attempts.get(self.current_id, 0) + 1
CountAttempt(att, cur) == Put(att, cur, Get(att, cur, 0) + 1)

\* the set is replaced by the id
AddMasteredOnly(m, cur) == {cur}

\* self.mastered.add(self.current_id)
AddMastered(m, cur) == m \cup {cur}

on_check(user_text) ==
    IF current_id = None
    THEN UNCHANGED <<progress_file, progress_db, mastered, attempts, fail_counts,
                     points, queue, current_id, last_result, check_enabled,
                     next_enabled>>
    ELSE
      LET q == QuestionOf(decks, current_id)
          result == Scores[q][user_text]
          pts == PointsOf(result)
          popped == PopHead(queue, current_id)
      IN /\ attempts' = CountAttempt(attempts, current_id)
         /\ last_result' = Some(result)
         /\ points' = Put(points, current_id, pts)
         /\ IF result.passed
            THEN /\ mastered' = AddMastered(mastered, current_id)
                 /\ queue' = popped
                 /\ fail_counts' = fail_counts
            ELSE /\ fail_counts' = Put(fail_counts, current_id,
                                       Get(fail_counts, current_id, 0) + 1)
                 /\ queue' = Requeue(popped, current_id)
                 /\ mastered' = mastered
         /\ progress_db' = _persist_question_state(progress_db, current_id, mastered',
                                                   attempts', fail_counts', points')
         /\ progress_file' = save_progress(progress_db')
         /\ check_enabled' = FALSE
         /\ next_enabled' = TRUE
         /\ current_id' = current_id

on_next ==
    /\ _load_current(decks, mastered, queue, today_set, current_id, last_result,
                     check_enabled, next_enabled, text_enabled)
    /\ UNCHANGED <<progress_file, progress_db, mastered, attempts, fail_counts, points>>

on_reset(resp) ==
    IF resp # "Yes"
    THEN UNCHANGED <<progress_file, progress_db, mastered, attempts, fail_counts,
                     points, queue, today_set, current_id, last_result,
                     check_enabled, next_enabled, text_enabled>>
    ELSE /\ UNCHANGED <<progress_file, progress_db, mastered, attempts, fail_counts, points>>
         /\ \E fresh \in FreshQueues(decks, mastered) :
                _load_current(decks, mastered, fresh.queue, fresh.today_set, current_id,
                              last_result, TRUE, FALSE, text_enabled)

\* Enter always checks
on_submit_always_check(user_text) ==
    on_check(user_text) /\ UNCHANGED <<today_set, text_enabled>>

on_submit(user_text) ==
    IF next_enabled
    THEN on_next
    ELSE on_check(user_text) /\ UNCHANGED <<today_set, text_enabled>>

\* the decks that fail are passed over
LoadsFailNever(loads) == FALSE

\* some load_deck(str(dp)) of the loop over self.deck_paths raises
LoadsFail(loads) == \E i \in 1..Len(loads) : loads[i].error # "none"

\* LumioMainWindow(deck_paths) inside main(): the window is shown, or the
\* exception of __init__ is reported and no window exists
main(deck_paths) ==
    LET db == load_progress(progress_file)
        loads == [i \in 1..Len(deck_paths) |-> DeckLoads[deck_paths[i]]]
    IN IF LoadsFail(loads) \/ db.t # "dict"
       THEN /\ startup_error' = TRUE
            /\ UNCHANGED <<phase, session, progress_file, progress_db, decks, mastered,
                           attempts, fail_counts, points, queue, today_set, current_id,
                           last_result, check_enabled, next_enabled, text_enabled>>
       ELSE
         LET ds == [i \in 1..Len(deck_paths) |->
                       [key |-> deck_paths[i], meta |-> loads[i].meta,
                        questions |-> loads[i].questions]]
             gs == Range(AllGqids(ds))
             m == PersistedMastered(db, gs)
         IN /\ startup_error' = FALSE
            /\ phase' = "session"
            /\ session' = session + 1
            /\ progress_db' = db
            /\ progress_file' = progress_file
            /\ decks' = ds
            /\ mastered' = m
            /\ attempts' = [g \in gs |-> QEntry(db, g[1], g[2]).attempts]
            /\ fail_counts' = [g \in gs |-> QEntry(db, g[1], g[2]).fails]
            /\ points' = [g \in gs |-> QEntry(db, g[1], g[2]).points]
            /\ \E fresh \in FreshQueues(ds, m) :
                   _load_current(ds, m, fresh.queue, fresh.today_set, None, None,
                                 TRUE, FALSE, TRUE)

-----------------------------------------------------------------------------
(* The specification of the program *)

TypedAnswers == AnswerClasses[QuestionOf(decks, current_id)]

RECURSIVE SumAttempts(_, _)
SumAttempts(db, keys) ==
    IF keys = {} THEN 0
    ELSE LET k == CHOOSE x \in keys : TRUE
         IN db.decks[k[1]][k[2]].attempts + SumAttempts(db, keys \ {k})

\* the checks recorded in the progress store
TotalChecks(db) ==
    SumAttempts(db, UNION {{<<dk, qid>> : qid \in DOMAIN db.decks[dk]} : dk \in DOMAIN db.decks})

NoWindow ==
    /\ decks = <<>>
    /\ progress_db = EmptyDB
    /\ mastered = {}
    /\ attempts = <<>>
    /\ fail_counts = <<>>
    /\ points = <<>>
    /\ queue = <<>>
    /\ today_set = {}
    /\ current_id = None
    /\ last_result = None
    /\ check_enabled = FALSE
    /\ next_enabled = FALSE
    /\ text_enabled = FALSE

Init ==
    /\ phase = "idle"
    /\ startup_error = FALSE
    /\ session = 0
    /\ today \in 0..MaxDay
    /\ progress_file \in {FileAbsent, FileUnparsable, FileJson(WrongShapeDB)}
    /\ NoWindow
    /\ arg = None
    /\ ret = None

\* the program is started and decks are picked
Start ==
    /\ phase = "idle"
    /\ session < MaxSessions
    /\ \E deck_paths \in Selections : main(deck_paths)
    /\ UNCHANGED <<today, arg, ret>>

ClickCheck ==
    /\ phase = "session"
    /\ check_enabled
    /\ TotalChecks(progress_db) < MaxChecks
    /\ \E user_text \in (IF current_id = None THEN {<<>>} ELSE TypedAnswers) :
           on_check(user_text)
    /\ UNCHANGED <<phase, startup_error, today, decks, today_set, text_enabled,
                   session, arg, ret>>

ClickNext ==
    /\ phase = "session"
    /\ next_enabled
    /\ on_next
    /\ UNCHANGED <<phase, startup_error, today, decks, session, arg, ret>>

\* Enter in the answer box
Submit ==
    /\ phase = "session"
    /\ text_enabled
    /\ next_enabled \/ TotalChecks(progress_db) < MaxChecks
    /\ \E user_text \in (IF next_enabled \/ current_id = None THEN {<<>>}
                           ELSE TypedAnswers) :
           on_submit(user_text)
    /\ UNCHANGED <<phase, startup_error, today, decks, session, arg, ret>>

ClickReset ==
    /\ phase = "session"
    /\ \E resp \in {"Yes", "No"} : on_reset(resp)
    /\ UNCHANGED <<phase, startup_error, today, decks, session, arg, ret>>

\* the window is closed and the process ends
Quit ==
    /\ phase = "session"
    /\ phase' = "idle"
    /\ decks' = <<>>
    /\ progress_db' = EmptyDB
    /\ mastered' = {}
    /\ attempts' = <<>>
    /\ fail_counts' = <<>>
    /\ points' = <<>>
    /\ queue' = <<>>
    /\ today_set' = {}
    /\ current_id' = None
    /\ last_result' = None
    /\ check_enabled' = FALSE
    /\ next_enabled' = FALSE
    /\ text_enabled' = FALSE
    /\ UNCHANGED <<startup_error, today, progress_file, session, arg, ret>>

DayPasses ==
    /\ today < MaxDay
    /\ today' = today + 1
    /\ UNCHANGED <<phase, startup_error, progress_file, progress_db, decks, mastered,
                   attempts, fail_counts, points, queue, today_set, current_id,
                   last_result, check_enabled, next_enabled, text_enabled, session,
                   arg, ret>>

Next ==
    \/ Start
    \/ ClickCheck
    \/ ClickNext
    \/ Submit
    \/ ClickReset
    \/ Quit
    \/ DayPasses

Spec == Init /\ [][Next]_vars

-----------------------------------------------------------------------------
(* Specifications of the pure functions: Init draws the input, the one      *)
(* action applies the function                                             *)

\* no window, an empty progress store
IdleProgram ==
    /\ phase = "idle"
    /\ startup_error = FALSE
    /\ session = 0
    /\ progress_file = FileAbsent
    /\ NoWindow

MaxDue == 6

\* deck_daily_quota(meta_due, remaining) on day today
QuotaInit ==
    /\ IdleProgram
    /\ today \in 0..MaxDay
    /\ arg \in [meta_due : {None} \cup {Some(d) : d \in 0..MaxDue},
                remaining : -1..MaxRemaining]
    /\ ret = None

QuotaCall ==
    /\ ret = None
    /\ ret' = Some(deck_daily_quota(arg.meta_due, arg.remaining))
    /\ UNCHANGED <<arg, sessionVars>>

QuotaNext == QuotaCall

QuotaSpec == QuotaInit /\ [][QuotaNext]_vars

\* {"type": "text", "prompt": "p", "rubric": [["a"], ["b"]], "pass_ratio": 0.4,
\*  "min_words": 2}
QuestionLowBar ==
    JObj([k \in {"type", "prompt", "rubric", "pass_ratio", "min_words"} |->
        CASE k = "type" -> TypeText
          [] k = "prompt" -> JStr(<<"p">>)
          [] k = "rubric" -> JList(<<JList(<<Phrase(<<"a">>)>>), JList(<<Phrase(<<"b">>)>>)>>)
          [] k = "pass_ratio" -> JNum(40)
          [] k = "min_words" -> JInt(2)])

\* {"type": "text", "prompt": "p", "rubric": [], "pass_ratio": 0, "min_words": 0}
QuestionNoBar ==
    JObj([k \in {"type", "prompt", "rubric", "pass_ratio", "min_words"} |->
        CASE k = "type" -> TypeText
          [] k = "prompt" -> JStr(<<"p">>)
          [] k = "rubric" -> JList(<<>>)
          [] k = "pass_ratio" -> JInt(0)
          [] k = "min_words" -> JInt(0)])

\* the questions scored: as load_deck builds them
ScoreQuestions ==
    UNION {Range(LoadItem(obj, 1).questions) :
              obj \in {QuestionA1, QuestionA2, QuestionA3, QuestionB, QuestionLowBar,
                       QuestionNoBar, QuestionEmptyRubric}}

\* compute_score(q, user_text)
ScoreInit ==
    /\ IdleProgram
    /\ today = 0
    /\ arg \in [q : ScoreQuestions, user_text : Answers]
    /\ ret = None

ScoreCall ==
    /\ ret = None
    /\ ret' = Some(compute_score(arg.q, arg.user_text))
    /\ UNCHANGED <<arg, sessionVars>>

ScoreNext == ScoreCall

ScoreSpec == ScoreInit /\ [][ScoreNext]_vars

MaxItems == 2

\* the items a deck file can hold
ItemPool ==
    {QuestionA1, QuestionA2, QuestionChoice, QuestionEmptyRubric, QuestionNonStringPhrase,
     QuestionGroupNotList, QuestionNoRubric, QuestionBlankPrompt, JInt(1)}

MetaPool ==
    {JObj(<<>>),
     JObj([m \in {"title", "due_date"} |->
         CASE m = "title" -> JStr(<<" ", "A">>)
           [] m = "due_date" -> JStr(<<"1", "-", "1", "-", "3">>)]),
     JObj([m \in {"due_date"} |-> JStr(<<"1", "-", "3">>)]),
     JObj([m \in {"due_date"} |-> JStr(<<"1", "-", "1", "3", "-", "1">>)]),
     JList(<<>>)}

\* the deck files loaded: absent, the legacy list, the object with meta and
\* questions, an object without a questions list, another JSON root
DeckFiles ==
    LET lists == {JList(items) : items \in SeqsUpTo(ItemPool, MaxItems)}
    IN {None, Some(JInt(1)), Some(JObj([k \in {"meta"} |-> JObj(<<>>)]))}
       \cup {Some(l) : l \in lists}
       \cup {Some(JObj([k \in {"meta", "questions"} |->
                          IF k = "meta" THEN m ELSE l])) : m \in MetaPool, l \in lists}

\* load_deck(deck_path)
LoadInit ==
    /\ IdleProgram
    /\ today = 0
    /\ arg \in DeckFiles
    /\ ret = None

LoadCall ==
    /\ ret = None
    /\ ret' = Some(load_deck(arg))
    /\ UNCHANGED <<arg, sessionVars>>

LoadNext == LoadCall

LoadSpec == LoadInit /\ [][LoadNext]_vars

-----------------------------------------------------------------------------
(* Properties of the review session, under Spec *)

\* the record of gqid in the progress file, as a later load reads it
FileRecord(gqid) == QEntry(load_progress(progress_file), gqid[1], gqid[2])

\* a step in which a check scored an answer of the presented question
Checked ==
    /\ phase = "session"
    /\ current_id # None
    /\ last_result = None
    /\ last_result' # None

C2_PassTransition ==
    [][(Checked /\ queue # <<>> /\ Head(queue) = current_id /\ last_result'[1].passed) =>
          /\ current_id \in mastered'
          /\ current_id \notin Range(queue')
          /\ fail_counts'[current_id] = fail_counts[current_id]
          /\ FileRecord(current_id)'.mastered]_vars

\* a passing check has just been made
C2_Witness ==
    /\ phase = "session"
    /\ next_enabled
    /\ last_result # None
    /\ last_result[1].passed
    /\ current_id \in mastered
    /\ current_id \notin Range(queue)
    /\ FileRecord(current_id).mastered

\* C3: when a check of the current id c fails with queue = [c, x1, ..., xn],
\* afterwards queue = [x1, ..., xn, c], c is not in mastered, its fail count
\* is one more, and its record in the progress file has mastered = false.
C3_FailTransition ==
    [][(Checked /\ queue # <<>> /\ Head(queue) = current_id /\ ~last_result'[1].passed) =>
          /\ queue' = Append(Tail(queue), current_id)
          /\ Len(queue') = Len(queue)
          /\ current_id \notin mastered'
          /\ fail_counts'[current_id] = fail_counts[current_id] + 1
          /\ ~FileRecord(current_id)'.mastered
          /\ FileRecord(current_id)'.fails = fail_counts'[current_id]]_vars

\* a failing check has moved the head behind two other ids
C3_Witness ==
    /\ phase = "session"
    /\ next_enabled
    /\ last_result # None
    /\ ~last_result[1].passed
    /\ Len(queue) >= 3
    /\ queue[Len(queue)] = current_id
    /\ fail_counts[current_id] >= 1
    /\ current_id \notin mastered

-----------------------------------------------------------------------------
(* A session in which every checked answer passes: check and next         *)
(* alternate, the window is neither reset nor closed                      *)

\* the typed answers that pass, by question
PassingAnswers ==
    [q \in CatalogueQuestions |-> {a \in AnswerClasses[q] : Scores[q][a].passed}]

\* a check of the presented question with an answer that passes
CheckPass ==
    /\ phase = "session"
    /\ check_enabled
    /\ current_id # None
    /\ \E user_text \in PassingAnswers[QuestionOf(decks, current_id)] :
          on_check(user_text)
    /\ UNCHANGED <<phase, startup_error, today, decks, today_set, text_enabled,
                   session, arg, ret>>

AllPassNext ==
    \/ Start
    \/ CheckPass
    \/ ClickNext
    \/ DayPasses

\* the user keeps answering: an enabled check or next is eventually clicked
AllPassSpec ==
    /\ Init
    /\ [][AllPassNext]_vars
    /\ WF_vars(CheckPass)
    /\ WF_vars(ClickNext)

\* no question is presented
NothingPresented == phase = "session" /\ current_id = None

\* C4, as amended: a session in which every checked answer passes reaches a
\* state where no question is presented, queue is empty and every id of
\* today_set is mastered; mastered is then the set of all loaded questions,
\* of which today_set, the last pack built, may be a proper subset.
C4_AllPassTerminates ==
    (phase = "session") ~>
        (/\ NothingPresented
         /\ queue = <<>>
         /\ today_set \subseteq mastered
         /\ mastered = Range(AllGqids(decks)))

\* the session has ended after a second pack was built: an id mastered in
\* this session lies outside today_set
C4_Witness ==
    /\ NothingPresented
    /\ queue = <<>>
    /\ session = 1
    /\ mastered = Range(AllGqids(decks))
    /\ today_set \subseteq mastered
    /\ mastered \ today_set # {}
    /\ \A g \in mastered : FileRecord(g).attempts = 1

\* C4, as stated: whenever the all-pass session has ended, queue is empty and
\* mastered is exactly today_set.
C4_ExactCover ==
    NothingPresented => (queue = <<>> /\ mastered = today_set)

-----------------------------------------------------------------------------
(* Reset, sessions after a restart, and the progress file, under Spec *)

\* the ids of the questions loaded
Loaded == Range(AllGqids(decks))

\* a step of on_reset in which the dialog was answered Yes
ConfirmedReset ==
    /\ phase = "session"
    /\ UNCHANGED <<phase, startup_error, today, decks, session, arg, ret>>
    /\ on_reset("Yes")

\* C5, as amended: a confirmed reset rebuilds today's pack and nothing else.
\* mastered, the attempts, fails and points counters, the progress store
\* and the progress file are unchanged; the new today_set holds no mastered
\* id, queue is an ordering of it without repetition, and while a question
\* is open the head of the queue is presented for a check.
C5_ResetRebuildsPack ==
    [][ConfirmedReset =>
          /\ UNCHANGED <<mastered, attempts, fail_counts, points, progress_db,
                         progress_file>>
          /\ today_set' \subseteq Loaded \ mastered
          /\ Range(queue') = today_set'
          /\ Len(queue') = Cardinality(today_set')
          /\ (mastered # Loaded =>
                /\ queue' # <<>>
                /\ current_id' = Head(queue')
                /\ last_result' = None
                /\ check_enabled'
                /\ ~next_enabled')]_vars

\* in a first session with nothing mastered, an id that was checked is no
\* longer in today's pack: a reset replaced the pack; the id keeps its
\* attempts
C5_Witness ==
    /\ phase = "session"
    /\ session = 1
    /\ mastered = {}
    /\ current_id # None
    /\ check_enabled
    /\ \E g \in Loaded \ today_set :
          /\ attempts[g] > 0
          /\ fail_counts[g] > 0
          /\ points[g] >= 0
          /\ FileRecord(g).attempts = attempts[g]

\* C5, as stated, for the narrowest scope, the ids in today's pack before
\* and after the reset: after a confirmed reset none of them is mastered
\* and their attempts and fails are 0 and their points cleared.
C5_ResetClears ==
    [][ConfirmedReset =>
          \A g \in today_set \cap today_set' :
              /\ g \notin mastered'
              /\ attempts'[g] = 0
              /\ fail_counts'[g] = 0
              /\ points'[g] \in {0, -1}]_vars

\* a question is presented for an answer
Presented(g) == current_id = g /\ last_result = None

\* the ids that have a record in the progress file
FileKeys ==
    LET file_decks == load_progress(progress_file).decks
    IN UNION {{<<dk, qid>> : qid \in DOMAIN file_decks[dk]} : dk \in DOMAIN file_decks}

\* C6: a record of the progress file that has mastered = true keeps it, and
\* in every session that loads the id of such a record the id is in
\* mastered, is not in queue and is not presented.
C6_PassedIsTerminal ==
    /\ [](phase = "session" =>
            \A g \in Loaded :
                FileRecord(g).mastered =>
                    /\ g \in mastered
                    /\ g \notin Range(queue)
                    /\ ~Presented(g))
    /\ [][\A g \in FileKeys : FileRecord(g).mastered =>
              (g \in FileKeys' /\ FileRecord(g)'.mastered)]_vars

\* a second session presents a question while another id of its decks is
\* mastered in the progress file read at its start
C6_Witness ==
    /\ phase = "session"
    /\ session = 2
    /\ current_id # None
    /\ last_result = None
    /\ attempts[current_id] = 0
    /\ \E g \in Loaded :
          /\ FileRecord(g).mastered
          /\ g \in mastered
          /\ g # current_id
    /\ TotalChecks(progress_db) = 1

\* p is an integer nearest to 100 * f, f a fraction
NearestToHundredfold(p, f) ==
    /\ 2 * (100 * f.num - p * f.den) <= f.den
    /\ 2 * (p * f.den - 100 * f.num) <= f.den

\* C7: from the return of a check until next presents a question, the
\* record of the checked id in the progress file equals the values in
\* memory: mastered = (id in mastered), attempts = attempts[id], fails =
\* fail_counts[id], points = points[id], and points is the integer in
\* [0, 100] nearest to 100 times the effective coverage of that check,
\* whether the check passed or failed.
C7_WriteThrough ==
    (phase = "session" /\ next_enabled /\ current_id # None /\ last_result # None) =>
        /\ current_id \in FileKeys
        /\ FileRecord(current_id) =
              [mastered |-> current_id \in mastered,
               attempts |-> attempts[current_id],
               fails |-> fail_counts[current_id],
               points |-> points[current_id]]
        /\ FileRecord(current_id).mastered = last_result[1].passed
        /\ FileRecord(current_id).attempts >= 1
        /\ FileRecord(current_id).points \in 0..100
        /\ NearestToHundredfold(FileRecord(current_id).points, last_result[1].effective)

\* a failing check of an under-length answer that hit one group of two is in
\* the file with 42 points
C7_Witness ==
    /\ phase = "session"
    /\ next_enabled
    /\ current_id # None
    /\ last_result # None
    /\ ~last_result[1].passed
    /\ FileRecord(current_id).points = 42
    /\ FileRecord(current_id).fails = 1
    /\ ~FileRecord(current_id).mastered

-----------------------------------------------------------------------------
(* Properties of the pure functions *)

\* ceil(a / b) for a > 0, b > 0: the least k with k * b >= a
Ceil(a, b) == CHOOSE k \in 0..a : k * b >= a /\ \A j \in 0..(k - 1) : j * b < a

\* C8: deck_daily_quota(due, remaining) is 0 if remaining <= 0, 0 if no due
\* date is set, else remaining if due - today <= 0, else
\* ceil(remaining / (due - today)); so it is 3 for (today + 4, 10), 7 for
\* (today - 1, 7), 0 for (None, 7), and lies in [0, remaining] when
\* remaining >= 0.
C8_DailyQuota ==
    ret # None =>
        LET due == arg.meta_due
            remaining == arg.remaining
            quota == ret[1]
        IN /\ quota = (IF remaining <= 0 THEN 0
                       ELSE IF due = None THEN 0
                       ELSE IF due[1] - today <= 0 THEN remaining
                       ELSE Ceil(remaining, due[1] - today))
           /\ (due = Some(today + 4) /\ remaining = 10) => quota = 3
           /\ (due = Some(today - 1) /\ remaining = 7) => quota = 7
           /\ (due = None /\ remaining = 7) => quota = 0
           /\ remaining >= 0 => (0 <= quota /\ quota <= remaining)

\* the quota of 10 remaining questions due in 4 days was computed: 3
C8_Witness ==
    /\ ret = Some(3)
    /\ arg.meta_due = Some(today + 4)
    /\ arg.remaining = 10

\* C9: compute_score returns passed = (effective >= pass_ratio) and
\* length_ok, with coverage = hit_count / max(number of groups, 1), length_ok
\* = (word_count >= min_words) and effective = coverage if length_ok, else
\* coverage * 0.85; an answer of fewer than min_words words does not pass,
\* and one group of two hit by an under-length answer has effective 0.425.
C9_PassRule ==
    ret # None =>
        LET q == arg.q
            r == ret[1]
            norm == normalize(arg.user_text)
            groups_hit == {i \in 1..Len(q.rubric) :
                              \E j \in 1..Len(q.rubric[i]) : Contains(norm, q.rubric[i][j])}
        IN /\ r.word_count = word_count(norm)
           /\ r.hit_count = Cardinality(groups_hit)
           /\ r.total = Max(Len(q.rubric), 1)
           /\ r.coverage.num * r.total = r.hit_count * r.coverage.den
           /\ r.length_ok = (r.word_count >= q.min_words)
           /\ IF r.length_ok
              THEN r.effective.num * r.coverage.den = r.coverage.num * r.effective.den
              ELSE r.effective.num * r.coverage.den * 100 =
                       r.coverage.num * 85 * r.effective.den
           /\ r.passed = (r.effective.num * 100 >= q.pass_ratio * r.effective.den
                          /\ r.length_ok)
           /\ r.word_count < q.min_words => ~r.passed
           /\ (r.hit_count = 1 /\ Len(q.rubric) = 2 /\ ~r.length_ok) =>
                  /\ r.effective.num * 1000 = 425 * r.effective.den
                  /\ r.effective.num * 2 # r.effective.den

\* an under-length answer hit one group of two: its effective coverage
\* 0.425 reaches the pass ratio 0.4 and the answer did not pass
C9_Witness ==
    /\ ret # None
    /\ ret[1].hit_count = 1
    /\ ret[1].total = 2
    /\ ~ret[1].length_ok
    /\ ret[1].effective.num * 1000 = 425 * ret[1].effective.den
    /\ arg.q.pass_ratio = 40
    /\ ~ret[1].passed

\* a text question of the deck file has a rubric that is an empty list, or
\* a rubric with a group that holds an element that is not a string
HasBadRubric(file) ==
    /\ file # None
    /\ LET raw == file[1]
           items == IF T(raw) = "dict" THEN JGet(raw, "questions", JNull) ELSE raw
       IN /\ T(raw) \in {"dict", "list"}
          /\ T(items) = "list"
          /\ \E i \in 1..Len(V(items)) :
                LET obj == V(items)[i]
                    rubric == JGet(obj, "rubric", JNull)
                IN /\ T(obj) = "dict"
                   /\ JGet(obj, "type", JNull) = TypeText
                   /\ T(rubric) = "list"
                   /\ \/ V(rubric) = <<>>
                      \/ \E g \in 1..Len(V(rubric)) :
                            /\ T(V(rubric)[g]) = "list"
                            /\ \E k \in 1..Len(V(V(rubric)[g])) :
                                  T(V(V(rubric)[g])[k]) # "str"

\* C10: load_deck of a deck that holds a text question whose rubric is an
\* empty list, or has a group with a non-string element, fails with a
\* format error (ValueError) and loads no question.
C10_BadRubricRejected ==
    (ret # None /\ HasBadRubric(arg)) =>
        (ret[1].error = "ValueError" /\ ret[1].questions = <<>>)

-----------------------------------------------------------------------------
\* Progress loading and session start

\* every selected deck loads
AllLoad(deck_paths) ==
    \A i \in 1..Len(deck_paths) : DeckLoads[deck_paths[i]].error = "none"

\* the ids of the selected decks
SelectedGqids(deck_paths) ==
    UNION {{<<deck_paths[i], DeckLoads[deck_paths[i]].questions[k].id>> :
               k \in 1..Len(DeckLoads[deck_paths[i]].questions)} :
           i \in 1..Len(deck_paths)}

\* the backing file is absent, is not JSON, or is JSON of another shape than
\* the progress document
Corrupt(file) ==
    \/ file.kind = "absent"
    \/ file.kind = "unparsable"
    \/ file.kind = "json" /\ file.value.t # "dict"

\* C11: loading progress is never fatal.  Whenever the window is built over
\* decks that all load while the backing file is absent, unparsable or
\* otherwise corrupt, the session is constructed with an empty history: no
\* mastered id, attempts 0, fails 0 and points -1 for every question.
C11_ProgressNeverFatal ==
    [][\A deck_paths \in Selections :
          (phase = "idle" /\ Corrupt(progress_file) /\ AllLoad(deck_paths)
             /\ main(deck_paths))
          => /\ phase' = "session"
             /\ ~startup_error'
             /\ mastered' = {}
             /\ DOMAIN attempts' = SelectedGqids(deck_paths)
             /\ \A g \in SelectedGqids(deck_paths) :
                   /\ attempts'[g] = 0
                   /\ fail_counts'[g] = 0
                   /\ points'[g] = -1]_vars

\* C12: session start is all-or-nothing over the selected decks.  Whenever the
\* window is built over a selection of which some deck fails to load, no
\* session is started: no deck is kept, no queue and no pack is built, no
\* question is presented and the progress store is not written.
C12_AllOrNothing ==
    [][\A deck_paths \in Selections :
          (phase = "idle" /\ ~AllLoad(deck_paths) /\ main(deck_paths))
          => /\ phase' = "idle"
             /\ startup_error'
             /\ session' = session
             /\ decks' = <<>>
             /\ queue' = <<>>
             /\ today_set' = {}
             /\ current_id' = None
             /\ ~check_enabled' /\ ~next_enabled' /\ ~text_enabled'
             /\ progress_file' = progress_file]_vars

\* a start was refused although the progress file reads as a progress
\* document, so the refusal came from a deck
C12_Witness ==
    /\ phase = "idle"
    /\ startup_error
    /\ load_progress(progress_file).t = "dict"
    /\ decks = <<>>
    /\ queue = <<>>
    /\ current_id = None

-----------------------------------------------------------------------------
\* Counters

\* C13: after any sequence of check, next and reset actions, started from an
\* empty or well-formed progress store, every persisted record and every
\* in-memory counter has fails <= attempts, and every mastered id has at
\* least one passing attempt (attempts >= 1 and fails < attempts).
C13_CountersWellFormed ==
    LET WellFormedRecord(r) ==
            /\ r.fails <= r.attempts
            /\ r.mastered => (r.attempts >= 1 /\ r.fails < r.attempts)
    IN /\ \A g \in FileKeys : WellFormedRecord(FileRecord(g))
       /\ phase = "session" =>
             \A g \in Loaded :
                 WellFormedRecord(RecordOf(g, mastered, attempts, fail_counts, points))

\* an id was failed and then passed: its record and its counters agree on
\* two attempts of which one failed
C13_Witness ==
    /\ phase = "session"
    /\ \E g \in mastered :
          /\ attempts[g] = 2
          /\ fail_counts[g] = 1
          /\ g \in FileKeys
          /\ FileRecord(g).mastered
          /\ FileRecord(g).attempts = 2
          /\ FileRecord(g).fails = 1

-----------------------------------------------------------------------------
\* The daily scheduler as a function of the loaded decks, the mastered set
\* and the day

\* self.decks of a window over the decks that load, for every due date the
\* deck files may carry
SchedDecks ==
    UNION {{[i \in 1..Len(dp) |->
                [key |-> dp[i],
                 meta |-> [DeckLoads[dp[i]].meta EXCEPT !.due_date = due[i]],
                 questions |-> DeckLoads[dp[i]].questions]] :
              due \in [1..Len(dp) -> {None} \cup {Some(d) : d \in 0..MaxDue}]} :
           dp \in {s \in Selections : AllLoad(s)}}

SchedInit ==
    /\ IdleProgram
    /\ today \in 0..MaxDay
    /\ arg \in UNION {[decks : {ds}, mastered : SUBSET Range(AllGqids(ds))] :
                         ds \in SchedDecks}
    /\ ret = None

\* self.queue = self._build_daily_queue(); self.today_set = set(self.queue);
\* random.shuffle(self.queue), the list built kept beside the two
SchedCall ==
    /\ ret = None
    /\ \E qids \in _build_daily_queue(arg.decks, arg.mastered) :
          \E q \in Shuffles(qids) :
              ret' = Some([qids |-> qids, today_set |-> Range(qids), queue |-> q])
    /\ UNCHANGED <<arg, sessionVars>>

SchedNext == SchedCall

SchedSpec == SchedInit /\ [][SchedNext]_vars

\* the ids of deck d that are not mastered
OpenOfDeck(d, m) == Range(GqidsOfDeck(d)) \ m

\* the daily quota of deck d
QuotaOfDeck(d, m) == deck_daily_quota(d.meta.due_date, Cardinality(OpenOfDeck(d, m)))

\* C14: for each loaded deck whose daily quota is > 0 the list that
\* _build_daily_queue returns holds exactly quota distinct global ids of
\* that deck, each a non-mastered question of the deck; the list has no
\* duplicates, and the session queue built from it is a permutation of
\* today_set.
C14_QuotaSampling ==
    ret # None =>
        LET r == ret[1]
            ds == arg.decks
            m == arg.mastered
        IN /\ \A k \in 1..Len(ds) :
                 QuotaOfDeck(ds[k], m) > 0 =>
                    /\ Cardinality({i \in 1..Len(r.qids) :
                                       r.qids[i] \in Range(GqidsOfDeck(ds[k]))})
                          = QuotaOfDeck(ds[k], m)
                    /\ \A i \in 1..Len(r.qids) :
                          r.qids[i] \in Range(GqidsOfDeck(ds[k]))
                             => r.qids[i] \in OpenOfDeck(ds[k], m)
           /\ Cardinality(Range(r.qids)) = Len(r.qids)
           /\ r.today_set = Range(r.qids)
           /\ Range(r.queue) = r.today_set
           /\ Len(r.queue) = Cardinality(r.today_set)

\* two decks with a quota each, one of them sampled (fewer ids taken than
\* are open), with a mastered id left out
C14_Witness ==
    /\ ret # None
    /\ Len(arg.decks) = 2
    /\ arg.mastered # {}
    /\ \A k \in 1..2 : QuotaOfDeck(arg.decks[k], arg.mastered) > 0
    /\ \E k \in 1..2 :
          QuotaOfDeck(arg.decks[k], arg.mastered)
             < Cardinality(OpenOfDeck(arg.decks[k], arg.mastered))
    /\ ret[1].queue # ret[1].qids

\* C15: if every loaded deck has quota 0, _build_daily_queue returns exactly
\* the non-mastered global ids of all loaded decks; if some deck has quota
\* > 0, no question of a deck with quota 0, in particular of a deck without
\* due date, is in the result.
C15_Fallback ==
    ret # None =>
        LET r == ret[1]
            ds == arg.decks
            m == arg.mastered
            zero == {k \in 1..Len(ds) : QuotaOfDeck(ds[k], m) = 0}
        IN IF zero = 1..Len(ds)
           THEN /\ Range(r.qids) = Range(AllGqids(ds)) \ m
                /\ Cardinality(Range(r.qids)) = Len(r.qids)
           ELSE \A k \in zero : Range(r.qids) \cap Range(GqidsOfDeck(ds[k])) = {}

\* a deck with a due date, fully mastered, beside a deck without due date
\* that has an open question: the fallback returned that question
C15_Witness ==
    /\ ret # None
    /\ Len(arg.decks) = 2
    /\ \E k \in 1..2 :
          /\ arg.decks[k].meta.due_date # None
          /\ OpenOfDeck(arg.decks[k], arg.mastered) = {}
    /\ \E k \in 1..2 :
          /\ arg.decks[k].meta.due_date = None
          /\ OpenOfDeck(arg.decks[k], arg.mastered) # {}
    /\ ret[1].qids # <<>>

-----------------------------------------------------------------------------
\* The queue and the mastered set

\* C16: the scheduler filters against the latest mastered set.  Every step
\* that builds today's pack (session construction, the rebuild on an empty
\* queue in next, a reset) leaves a pack with no mastered id, and no step
\* leaves a mastered id in the queue: a question passed earlier in the
\* session is never re-admitted to queue or today_set.
C16_LatestMastered ==
    [][phase' = "session" =>
          /\ Range(queue') \cap mastered' = {}
          /\ (phase = "idle" \/ today_set' # today_set)
                => today_set' \cap mastered' = {}]_vars

\* in the first session, after a pass, a pack that was built later: it
\* holds none of the passed ids
C16_Witness ==
    /\ phase = "session"
    /\ session = 1
    /\ mastered # {}
    /\ today_set # {}
    /\ today_set \cap mastered = {}
    /\ Range(queue) = today_set

\* C17: the queue advance rule.  While a question is presented (from session
\* construction, next or reset until its check) the mastered ids at the
\* head of the queue have been dropped: current_id is the head of queue and
\* is not in mastered.
C17_AdvanceRule ==
    (phase = "session" /\ current_id # None /\ last_result = None) =>
        /\ queue # <<>>
        /\ current_id = Head(queue)
        /\ current_id \notin mastered
        /\ DropMasteredHead(queue, mastered) = queue

\* a question presented after another was passed and after one was failed
\* and sent to the tail
C17_Witness ==
    /\ phase = "session"
    /\ current_id # None
    /\ last_result = None
    /\ check_enabled
    /\ mastered # {}
    /\ Len(queue) >= 2
    /\ current_id = Head(queue)
    /\ Get(fail_counts, queue[Len(queue)], 0) >= 1

\* C18: rebuild on empty.  When next is invoked while queue is empty once
\* its mastered heads are dropped, and some loaded question is not mastered,
\* the scheduler is invoked again: queue becomes a shuffle of the list it
\* returns, today_set the set of that list, and the head of the rebuilt
\* queue is presented.
C18_RebuildOnEmpty ==
    [][(/\ phase = "session"
        /\ next_enabled
        /\ DropMasteredHead(queue, mastered) = <<>>
        /\ mastered # Loaded
        /\ on_next)
       => /\ \E qids \in _build_daily_queue(decks, mastered) :
                /\ qids # <<>>
                /\ today_set' = Range(qids)
                /\ queue' \in Shuffles(qids)
          /\ current_id' = Head(queue')
          /\ last_result' = None
          /\ check_enabled' /\ ~next_enabled' /\ text_enabled']_vars

\* the whole pack of the first session was passed at the first try and a
\* question that was outside it is now presented
C18_Witness ==
    /\ phase = "session"
    /\ session = 1
    /\ Cardinality(mastered) = 2
    /\ \A g \in Loaded : Get(fail_counts, g, 0) = 0
    /\ current_id # None
    /\ last_result = None
    /\ current_id = Head(queue)
    /\ today_set = Range(queue)
    /\ today_set \cap mastered = {}

\* C19 as stated: in every reachable session state current_id is none or
\* the head of queue.
C19_CurrentIsHead ==
    phase = "session" =>
        \/ current_id = None
        \/ queue # <<>> /\ current_id = Head(queue)

\* C19: in every reachable session state current_id is none, or the head of
\* queue while the question awaits its check; from the check until next or
\* reset it is the checked id, which a pass has taken out of queue and a
\* fail has moved to its tail.
C19_CurrentIsHeadUntilCheck ==
    (phase = "session" /\ current_id # None) =>
        IF last_result = None
        THEN queue # <<>> /\ current_id = Head(queue)
        ELSE IF last_result[1].passed
             THEN \A i \in 1..Len(queue) : queue[i] # current_id
             ELSE /\ queue # <<>>
                  /\ queue[Len(queue)] = current_id
                  /\ \A i \in 1..(Len(queue) - 1) : queue[i] # current_id

\* a failed check with another id waiting: the checked id is still current
\* and is the last of the queue, not its head
C19_Witness ==
    /\ phase = "session"
    /\ current_id # None
    /\ last_result # None
    /\ ~last_result[1].passed
    /\ Len(queue) >= 2
    /\ Head(queue) # current_id
    /\ queue[Len(queue)] = current_id

\* C20: mastered grows monotonically within a session.  No step of a
\* session, a check and a next in particular, removes an id from mastered.
C20_MasteredMonotone ==
    [][(phase = "session" /\ phase' = "session") => mastered \subseteq mastered']_vars

\* a second id has just been passed in the first session and the first one
\* is still mastered
C20_Witness ==
    /\ phase = "session"
    /\ session = 1
    /\ last_result # None
    /\ last_result[1].passed
    /\ current_id \in mastered
    /\ \E g \in mastered : g # current_id

-----------------------------------------------------------------------------
\* The effects of a check

\* C21: each check of a current question adds exactly 1 to
\* attempts[current_id], whether the result passes or fails, and changes
\* the attempts of no other id; fails[current_id] grows by 1 exactly when
\* the result is not passed.
C21_AttemptsIncrement ==
    [][Checked =>
          /\ DOMAIN attempts' = DOMAIN attempts \cup {current_id}
          /\ attempts'[current_id] = Get(attempts, current_id, 0) + 1
          /\ \A g \in DOMAIN attempts' \ {current_id} : attempts'[g] = attempts[g]
          /\ Get(fail_counts', current_id, 0) =
                Get(fail_counts, current_id, 0) + (IF last_result'[1].passed THEN 0 ELSE 1)]_vars

\* the second check of an id has failed as the first did, while another id
\* waits with its own count
C21_Witness ==
    /\ phase = "session"
    /\ current_id # None
    /\ last_result # None
    /\ ~last_result[1].passed
    /\ attempts[current_id] = 2
    /\ fail_counts[current_id] = 2
    /\ \E g \in DOMAIN attempts : g # current_id /\ attempts[g] = 0

\* C22: the persist frame.  A check of question q of deck d changes, in the
\* progress store, only the record of (d, q): every other record of d and
\* of every other deck in the store, decks not loaded in the session
\* included, is the same after the file is rewritten.
C22_PersistFrame ==
    [][Checked =>
          /\ FileKeys' = FileKeys \cup {current_id}
          /\ \A g \in FileKeys \ {current_id} : FileRecord(g)' = FileRecord(g)]_vars

\* a check has just been persisted while the file holds the record that an
\* earlier session wrote for a deck this session did not load
C22_Witness ==
    /\ phase = "session"
    /\ current_id # None
    /\ last_result # None
    /\ current_id \in FileKeys
    /\ \E g \in FileKeys : g \notin Loaded /\ FileRecord(g).attempts = 1

-----------------------------------------------------------------------------
\* Check and next in turn

\* on_check called while no question is current, whatever the buttons show
DirectCheck ==
    /\ phase = "session"
    /\ current_id = None
    /\ on_check(<<>>)
    /\ UNCHANGED <<phase, startup_error, today, decks, today_set, text_enabled,
                   session, arg, ret>>

HandlerNext ==
    \/ Next
    \/ DirectCheck

\* the program, and on_check called on a window that presents no question
HandlerSpec == Init /\ [][HandlerNext]_vars

\* C23: check and next alternate.  Through the enabled actions a presented
\* question is checked at most once per presentation: a check leaves check
\* disabled and next enabled, and no check happens before a question is
\* presented again; Enter goes to next when next is enabled and to check
\* otherwise; a check with no current question changes no state and
\* persists nothing.
C23_CheckNextAlternation ==
    [][/\ Checked => (~check_enabled' /\ next_enabled' /\ current_id' = current_id)
       /\ (phase = "session" /\ phase' = "session" /\ last_result # None)
             => (/\ ~check_enabled
                 /\ current_id # None => next_enabled
                 /\ attempts' = attempts
                 /\ fail_counts' = fail_counts
                 /\ progress_file' = progress_file
                 /\ last_result' \in {last_result, None})
       /\ (phase = "session" /\ phase' = "session" /\ attempts' # attempts)
             => (check_enabled /\ ~next_enabled /\ current_id # None
                   /\ last_result = None)
       /\ (Submit /\ next_enabled) => on_next
       /\ (Submit /\ ~next_enabled /\ current_id # None)
             => (last_result' # None
                   /\ attempts'[current_id] = Get(attempts, current_id, 0) + 1)
       /\ DirectCheck => UNCHANGED vars]_vars

\* an id in its second presentation has been checked once more: check is
\* disabled, next and the answer box are enabled
C23_Witness ==
    /\ phase = "session"
    /\ current_id # None
    /\ last_result # None
    /\ last_result[1].passed
    /\ attempts[current_id] = 2
    /\ fail_counts[current_id] = 1
    /\ ~check_enabled
    /\ next_enabled
    /\ text_enabled

-----------------------------------------------------------------------------
\* The end of a session and the pack

\* C24: no dead end.  After session construction and after every next or
\* reset (the states in which no checked question is on screen) current_id
\* is none if and only if every loaded question is mastered: while a loaded
\* question is unmastered one is presented, and the state of an empty pack
\* with unmastered questions left is not reached.
C24_NoDeadEnd ==
    (phase = "session" /\ (current_id = None \/ last_result = None)) =>
        /\ current_id = None <=> mastered = Loaded
        /\ current_id # None =>
              /\ queue # <<>>
              /\ current_id \in Loaded \ mastered
              /\ check_enabled /\ text_enabled /\ ~next_enabled
        /\ current_id = None => (~check_enabled /\ ~next_enabled /\ ~text_enabled)

\* a second session was constructed over a deck whose every question was
\* passed in the first: nothing is presented
C24_Witness ==
    /\ phase = "session"
    /\ session = 2
    /\ current_id = None
    /\ last_result = None
    /\ Loaded # {}
    /\ mastered = Loaded
    /\ queue = <<>>

\* C25: in every reachable session state every id of queue is in today_set
\* and is a loaded question.  today_set is replaced only by a step that
\* rebuilds the queue (construction, rebuild on empty, reset), and a failed
\* check requeues an id that is already in today_set.
C25_QueueWithinPack ==
    [][phase' = "session" =>
          /\ Range(queue') \subseteq today_set'
          /\ today_set' \subseteq Range(AllGqids(decks'))
          /\ (phase = "idle" \/ today_set' # today_set) =>
                \E qids \in _build_daily_queue(decks', mastered') :
                    /\ today_set' = Range(qids)
                    /\ queue' \in Shuffles(qids)
          /\ Checked =>
                /\ today_set' = today_set
                /\ current_id \in today_set
                /\ Range(queue') \subseteq Range(queue)]_vars

\* a pass and then a fail: the failed id is back at the tail of the queue,
\* which is within today_set and smaller than it
C25_Witness ==
    /\ phase = "session"
    /\ last_result # None
    /\ ~last_result[1].passed
    /\ queue # <<>>
    /\ queue[Len(queue)] = current_id
    /\ current_id \in today_set
    /\ Range(queue) \subseteq today_set
    /\ today_set \cap mastered # {}

=============================================================================
